---- MODULE Spec2Model ----
(***************************************************************************)
(* A model of streamlit_house_app.py: the series accumulator, its closed   *)
(* form, the mortgage principal solver, the amortization schedule, the     *)
(* house investment model and the comparison with a stock investment.      *)
(*                                                                         *)
(* Numbers are exact rationals <<n, d>> (d > 0, lowest terms): the claims  *)
(* checked here are statements about exact arithmetic.  A Python call      *)
(* either returns or raises; an outcome is a record [exc, val] whose exc   *)
(* is "none" for a normal return and the exception's name otherwise.       *)
(***************************************************************************)
EXTENDS Integers, Sequences, FiniteSets, TLC

----------------------------------------------------------------------------
(* Exact arithmetic *)

Abs(i) == IF i < 0 THEN -i ELSE i

RECURSIVE GCD(_, _)
GCD(a, b) == IF b = 0 THEN a ELSE GCD(b, a % b)

\* the rational n/d in lowest terms with a positive denominator (d # 0)
Norm(n, d) ==
    LET g == GCD(Abs(n), Abs(d))
        s == IF d < 0 THEN -1 ELSE 1
    IN  <<s * (n \div g), s * (d \div g)>>

R(i) == <<i, 1>>
Zero == R(0)
One == R(1)

\* x + y, over the least common denominator
RAdd(x, y) ==
    LET g == GCD(x[2], y[2])
    IN  Norm(x[1] * (y[2] \div g) + y[1] * (x[2] \div g), (x[2] \div g) * y[2])

RNeg(x) == <<-x[1], x[2]>>

\* x - y
RSub(x, y) == RAdd(x, RNeg(y))

\* x * y, cancelling across before multiplying
RMul(x, y) ==
    LET g1 == GCD(Abs(x[1]), y[2])
        g2 == GCD(Abs(y[1]), x[2])
    IN  <<(x[1] \div g1) * (y[1] \div g2), (x[2] \div g2) * (y[2] \div g1)>>

\* x / y for y # 0
RDiv(x, y) == RMul(x, Norm(y[2], y[1]))

RIsZero(x) == x[1] = 0
RPos(x) == x[1] > 0

\* x ** n for a natural number n, by repeated squaring; 0 ** 0 is 1, as in
\* Python
RECURSIVE RPowNat(_, _)
RPowNat(x, n) ==
    IF n = 0 THEN One
    ELSE LET half == RPowNat(x, n \div 2)
             square == RMul(half, half)
         IN  IF n % 2 = 1 THEN RMul(square, x) ELSE square

----------------------------------------------------------------------------
(* Outcomes of a call *)

Return(v) == [exc |-> "none", val |-> v]
Raise(e) == [exc |-> e, val |-> <<>>]
Raised(o) == o.exc # "none"

\* x / y as Python evaluates it
PyDiv(x, y) == IF RIsZero(y) THEN Raise("ZeroDivisionError") ELSE Return(RDiv(x, y))

\* x ** n as Python evaluates it for an integer n
PyPow(x, n) ==
    IF n >= 0 THEN Return(RPowNat(x, n))
    ELSE IF RIsZero(x) THEN Raise("ZeroDivisionError")
    ELSE Return(RPowNat(RDiv(One, x), -n))

\* [v] * n: a list of n copies of v, empty when n <= 0
Repeat(v, n) == [i \in 1..(IF n < 0 THEN 0 ELSE n) |-> v]

\* zip(a, b): as long as the shorter of the two
ZipLen(a, b) == IF Len(a) < Len(b) THEN Len(a) ELSE Len(b)

----------------------------------------------------------------------------
(* values_of_series_of_invest *)

\* The rounds lo..hi of the loop over zip(inv, rates), run in order from the
\* total the round before lo left: the totals after each of them.  The rounds
\* are split in two halves, the second starting from the last total of the
\* first, which keeps the evaluation shallow.
RECURSIVE SeriesRounds(_, _, _, _, _)
SeriesRounds(inv, rates, total, lo, hi) ==
    IF lo > hi THEN <<>>
    ELSE IF lo = hi
    THEN <<RAdd(RMul(total, RAdd(One, rates[lo])), inv[lo])>>
    ELSE LET mid == (lo + hi) \div 2
             first == SeriesRounds(inv, rates, total, lo, mid)
         IN  first \o SeriesRounds(inv, rates, first[Len(first)], mid + 1, hi)

\* The call on the lists inv and rates.  Besides the outcome, the lists as the
\* call leaves them: pop(0) removes the head of the list the caller passed.
ValuesOfSeriesOfInvest(inv, rates, final_only, invest_at_begining_of_period) ==
    LET popInv == invest_at_begining_of_period /\ Len(inv) > 0
        inv1 == IF popInv THEN Tail(inv) ELSE inv
        popRate == popInv /\ Len(rates) > 0
        rates1 == IF popRate THEN Tail(rates) ELSE rates
        total0 == IF invest_at_begining_of_period
                  THEN RMul(inv[1], RAdd(One, rates[1]))
                  ELSE Zero
        rounds == SeriesRounds(inv1, rates1, total0, 1, ZipLen(inv1, rates1))
        total == IF rounds = <<>> THEN total0 ELSE rounds[Len(rounds)]
        value_over_time ==
            (IF invest_at_begining_of_period THEN <<total0>> ELSE <<>>) \o rounds
    IN  [invest_amounts |-> inv1,
         rate_between_amounts |-> rates1,
         out |-> IF invest_at_begining_of_period /\ ~popRate
                 THEN Raise("IndexError")
                 ELSE IF final_only THEN Return(total)
                 ELSE Return(value_over_time)]

\* The value a call on fresh lists returns (the callers inside the program
\* all pass lists they build for the call)
SeriesValue(inv, rates, final_only, invest_at_begining_of_period) ==
    ValuesOfSeriesOfInvest(inv, rates, final_only, invest_at_begining_of_period).out

\* total_of_regular_investment without the last contribution
TotalOfRegularInvestmentNoLast(reg_invest_value, rate, n_periods) ==
    IF RIsZero(rate) THEN Return(RMul(reg_invest_value, R(n_periods)))
    ELSE LET factor == RAdd(One, rate)
             power == PyPow(factor, n_periods)
         IN  IF Raised(power) THEN power
             ELSE Return(RDiv(RMul(reg_invest_value, RSub(factor, power.val)),
                              RSub(One, factor)))

(* total_of_regular_investment *)
TotalOfRegularInvestment(reg_invest_value, rate, n_periods) ==
    IF RIsZero(rate) THEN Return(RMul(reg_invest_value, R(n_periods)))
    ELSE LET factor == RAdd(One, rate)
             power == PyPow(factor, n_periods)
         IN  IF Raised(power) THEN power
             ELSE Return(RAdd(reg_invest_value,
                              RDiv(RMul(reg_invest_value, RSub(factor, power.val)),
                                   RSub(One, factor))))

----------------------------------------------------------------------------
\* compute_mortg_principal with the unpaid loan grown over one period too few
ComputeMortgPrincipalShort(loan_rate, loan_amount, years_to_maturity, n_payment_per_year) ==
    IF RIsZero(loan_rate)
    THEN PyDiv(loan_amount, R(years_to_maturity * n_payment_per_year))
    ELSE LET period_rate == PyDiv(loan_rate, R(n_payment_per_year))
             n_periods == years_to_maturity * n_payment_per_year
             growth == PyPow(RAdd(One, period_rate.val), n_periods - 1)
             invest_value_factor ==
                 SeriesValue(Repeat(One, n_periods),
                             Repeat(period_rate.val, n_periods), TRUE, FALSE)
         IN  IF Raised(period_rate) THEN period_rate
             ELSE IF Raised(growth) THEN growth
             ELSE PyDiv(RMul(loan_amount, growth.val), invest_value_factor.val)

(* compute_mortg_principal; years_to_maturity and n_payment_per_year are
   integers, loan_rate and loan_amount rationals *)
ComputeMortgPrincipal(loan_rate, loan_amount, years_to_maturity, n_payment_per_year) ==
    IF RIsZero(loan_rate)
    THEN PyDiv(loan_amount, R(years_to_maturity * n_payment_per_year))
    ELSE LET period_rate == PyDiv(loan_rate, R(n_payment_per_year))
             n_periods == years_to_maturity * n_payment_per_year
             growth == PyPow(RAdd(One, period_rate.val), n_periods)
             invest_value_factor ==
                 SeriesValue(Repeat(One, n_periods),
                             Repeat(period_rate.val, n_periods), TRUE, FALSE)
         IN  IF Raised(period_rate) THEN period_rate
             ELSE IF Raised(growth) THEN growth
             ELSE PyDiv(RMul(loan_amount, growth.val), invest_value_factor.val)

----------------------------------------------------------------------------
(* house_investment *)

\* The calendar of house_investment: twelve payments, and twelve months, a year
MonthsPerYear == 12

\* inflation_adjust: the i-th cost (from 0) scaled by (1 + rate / 12) ** i
InflationAdjust(month_costs, yearly_infl_rate) ==
    [k \in 1..Len(month_costs) |->
        RMul(month_costs[k],
             RPowNat(RAdd(One, RDiv(yearly_infl_rate, R(MonthsPerYear))), k - 1))]

\* whether month i (from 0) is charged the mortgage payment
PaymentCharged(i, n_months_repay) == i <= n_months_repay

\* the unrepaid loan compounded from exponent 0 instead of 1
UnrepaidLoanRemainingFromZero(loan_amount, mortg_rate, n_months_repay) ==
    [k \in 1..n_months_repay |->
        RMul(loan_amount,
             RPowNat(RAdd(One, RDiv(mortg_rate, R(MonthsPerYear))), k - 1))]

\* the loan as it would stand if nothing were repaid
UnrepaidLoanRemaining(loan_amount, mortg_rate, n_months_repay) ==
    [k \in 1..n_months_repay |->
        RMul(loan_amount,
             RPowNat(RAdd(One, RDiv(mortg_rate, R(MonthsPerYear))), k))]

\* what the payments amass in the side account
RepaidTotal(monthly_mort_payment, mortg_rate, n_months_repay) ==
    SeriesValue(Repeat(monthly_mort_payment, n_months_repay),
                Repeat(RDiv(mortg_rate, R(MonthsPerYear)), n_months_repay),
                FALSE, FALSE).val

\* the balance of the loan over the months of repayment
LoanRemaining(loan_amount, mortg_rate, monthly_mort_payment, n_months_repay) ==
    LET unrepaid == UnrepaidLoanRemaining(loan_amount, mortg_rate, n_months_repay)
        repaid == RepaidTotal(monthly_mort_payment, mortg_rate, n_months_repay)
    IN  [k \in 1..ZipLen(unrepaid, repaid) |-> RSub(unrepaid[k], repaid[k])]

\* the value of the house compounded from exponent 0 instead of 1
HouseValueFromZero(house_cost, estate_rate, n_total_months) ==
    [k \in 1..n_total_months |->
        RMul(house_cost,
             RPowNat(RAdd(One, RDiv(estate_rate, R(MonthsPerYear))), k - 1))]

\* the value of the house over the months
HouseValue(house_cost, estate_rate, n_total_months) ==
    [k \in 1..n_total_months |->
        RMul(house_cost,
             RPowNat(RAdd(One, RDiv(estate_rate, R(MonthsPerYear))), k))]

\* The call for the scenario s: the locals of house_investment as it returns,
\* or the exception compute_mortg_principal raised.
HouseInvestment(s) ==
    LET n_months_repay == s.mortgage_n_years * MonthsPerYear
        n_total_months == n_months_repay + s.n_years_after_pay_off * MonthsPerYear
        loan_amount == RMul(s.house_cost, RSub(One, s.down_payment_perc))
        payment == ComputeMortgPrincipal(s.mortg_rate, loan_amount,
                                         s.mortgage_n_years, MonthsPerYear)
        monthly_mort_payment == payment.val
        extra_cost_per_month ==
            Repeat(RDiv(RAdd(RAdd(s.tax, s.insurance), s.repair), R(MonthsPerYear)),
                   n_total_months)
        adjusted == InflationAdjust(extra_cost_per_month, s.inflation_rate)
        infl_adj_extra_cost_per_month ==
            [k \in 1..Len(adjusted) |->
                RMul(adjusted[k],
                     RSub(One, RMul(s.percentage_rented, s.income_tax)))]
        total_cost_per_month ==
            [k \in 1..Len(infl_adj_extra_cost_per_month) |->
                RAdd(infl_adj_extra_cost_per_month[k],
                     IF PaymentCharged(k - 1, n_months_repay)
                     THEN monthly_mort_payment ELSE Zero)]
        growth == RAdd(One, RDiv(s.estate_rate, R(MonthsPerYear)))
        rental_income ==
            [k \in 1..n_total_months |->
                RMul(RMul(RMul(RMul(s.monthly_rental_income,
                                    RSub(One, s.management_fees_rate)),
                               s.percentage_rented),
                          RSub(One, s.income_tax)),
                     RPowNat(growth, k))]
        monthly_income ==
            [k \in 1..ZipLen(rental_income, total_cost_per_month) |->
                RSub(rental_income[k], total_cost_per_month[k])]
        house_value == HouseValue(s.house_cost, s.estate_rate, n_total_months)
        loan_remaining ==
            LoanRemaining(loan_amount, s.mortg_rate, monthly_mort_payment,
                          n_months_repay)
                \o Repeat(Zero, n_total_months - n_months_repay)
        equity ==
            [k \in 1..ZipLen(house_value, loan_remaining) |->
                RSub(house_value[k], loan_remaining[k])]
    IN  IF Raised(payment) THEN payment
        ELSE Return([n_months_repay |-> n_months_repay,
                     n_total_months |-> n_total_months,
                     loan_amount |-> loan_amount,
                     monthly_mort_payment |-> monthly_mort_payment,
                     payment_charged |->
                         [k \in 1..Len(infl_adj_extra_cost_per_month) |->
                             PaymentCharged(k - 1, n_months_repay)],
                     total_cost_per_month |-> total_cost_per_month,
                     monthly_income |-> monthly_income,
                     loan_remaining |-> loan_remaining,
                     equity |-> equity])

----------------------------------------------------------------------------
(* compare_house_invest_vs_stock *)

PositiveMonthlyIncome(monthly_income) ==
    [k \in 1..Len(monthly_income) |->
        IF RPos(monthly_income[k]) THEN monthly_income[k] ELSE Zero]

\* the negative part without its change of sign
NegativeMonthlyIncomeSigned(monthly_income) ==
    [k \in 1..Len(monthly_income) |->
        IF ~RPos(monthly_income[k]) THEN monthly_income[k] ELSE Zero]

NegativeMonthlyIncome(monthly_income) ==
    [k \in 1..Len(monthly_income) |->
        IF ~RPos(monthly_income[k]) THEN RNeg(monthly_income[k]) ELSE Zero]

\* The locals of compare_house_invest_vs_stock as it returns
CompareHouseInvestVsStock(equity, monthly_income, stock_market_rate, down_payment_perc, house_cost) ==
    LET stock_market_month_rate == RDiv(stock_market_rate, R(MonthsPerYear))
        positive_monthly_income == PositiveMonthlyIncome(monthly_income)
        negative_monthly_income == NegativeMonthlyIncome(monthly_income)
        invested_positive ==
            SeriesValue(positive_monthly_income,
                        Repeat(stock_market_month_rate, Len(monthly_income)),
                        FALSE, FALSE).val
        house_invest ==
            [k \in 1..ZipLen(equity, invested_positive) |->
                RAdd(equity[k], invested_positive[k])]
        down_payment_invest ==
            [k \in 1..Len(monthly_income) |->
                RMul(RMul(down_payment_perc, house_cost),
                     RPowNat(RAdd(One, stock_market_month_rate), k))]
        invested_negative_monthly_income ==
            SeriesValue(negative_monthly_income,
                        Repeat(stock_market_month_rate, Len(negative_monthly_income)),
                        FALSE, FALSE).val
        total_stock_market_invest ==
            [k \in 1..ZipLen(down_payment_invest, invested_negative_monthly_income) |->
                RAdd(down_payment_invest[k], invested_negative_monthly_income[k])]
    IN  [positive_monthly_income |-> positive_monthly_income,
         negative_monthly_income |-> negative_monthly_income,
         house_invest |-> house_invest,
         total_stock_market_invest |-> total_stock_market_invest]

----------------------------------------------------------------------------
(* State *)

VARIABLES
    pc,                     \* which entry point runs, and where it stands
    \* a caller of values_of_series_of_invest and total_of_regular_investment
    invest_amounts,         \* the caller's list of amounts
    rate_between_amounts,   \* the caller's list of rates
    calls,                  \* the calls of values_of_series_of_invest so far
    regular,                \* the calls of total_of_regular_investment so far
    \* compute_equity_and_interest: its parameters and its locals
    loan_rate, loan_amount, years_to_maturity, n_payment_per_year,
    initial_equity, estate_growth_rate,
    principal,              \* the outcome of compute_mortg_principal
    equity, interest_paid, remaining_loan,
    equity_over_time, interest_paid_over_time,
    period,                 \* the rounds of the loop completed
    \* the script
    scenario,               \* the sidebar's inputs
    house,                  \* the outcome of house_investment
    compare,                \* the locals of compare_house_invest_vs_stock
    df                      \* the columns of the data frame filled so far

seriesVars == <<invest_amounts, rate_between_amounts, calls, regular>>
scheduleArgs == <<loan_rate, loan_amount, years_to_maturity, n_payment_per_year,
                  initial_equity, estate_growth_rate>>
scheduleLocals == <<principal, equity, interest_paid, remaining_loan,
                    equity_over_time, interest_paid_over_time, period>>
scriptVars == <<scenario, house, compare, df>>
vars == <<pc, seriesVars, scheduleArgs, scheduleLocals, scriptVars>>

\* Bounds of the explored inputs
MaxLen == 2
MaxCalls == 2
MaxYears == 2
MaxPay == 3
MaxPeriods == 12
MaxMortgageYears == 1
MaxExtraYears == 1

AmountValues == {R(1), R(2)}
RateValues == {R(0), <<1, 2>>, R(-1)}
\* rates per period; the yearly rate is the rate per period times the
\* payments per year
PeriodRates == {R(-2), R(-1), <<-1, 2>>, R(0), R(1)}
LoanAmounts == {R(1), R(3)}

SeqsUpTo(S, n) == UNION {[1..k -> S] : k \in 0..n}

\* the variables of the entry points that do not run
NoSeries ==
    /\ invest_amounts = <<>> /\ rate_between_amounts = <<>>
    /\ calls = <<>> /\ regular = <<>>
NoScheduleLocals ==
    /\ principal = Raise("not called") /\ equity = Zero /\ interest_paid = Zero
    /\ remaining_loan = Zero /\ equity_over_time = <<>>
    /\ interest_paid_over_time = <<>> /\ period = 0
NoSchedule ==
    /\ loan_rate = Zero /\ loan_amount = Zero /\ years_to_maturity = 0
    /\ n_payment_per_year = 0 /\ initial_equity = Zero /\ estate_growth_rate = Zero
    /\ NoScheduleLocals
NoScript ==
    /\ scenario = <<>> /\ house = Raise("not called")
    /\ compare = <<>> /\ df = <<>>

----------------------------------------------------------------------------
(* A caller of the accumulator and of its closed form *)

InitSeries ==
    /\ pc = "series"
    /\ invest_amounts \in SeqsUpTo(AmountValues, MaxLen)
    /\ rate_between_amounts \in SeqsUpTo(RateValues, MaxLen)
    /\ calls = <<>>
    /\ regular = <<>>
    /\ NoSchedule /\ NoScript

\* One call of values_of_series_of_invest, on the caller's own lists or on
\* copies of them made for the call.
CallValuesOfSeries(final_only, invest_at_begining_of_period, copy) ==
    /\ pc = "series"
    /\ Len(calls) < MaxCalls
    /\ LET r == ValuesOfSeriesOfInvest(invest_amounts, rate_between_amounts,
                                       final_only, invest_at_begining_of_period)
       IN  /\ calls' = Append(calls,
                  [final_only |-> final_only,
                   invest_at_begining_of_period |-> invest_at_begining_of_period,
                   copy |-> copy,
                   invest_amounts |-> invest_amounts,
                   rate_between_amounts |-> rate_between_amounts,
                   out |-> r.out])
           /\ invest_amounts' = IF copy THEN invest_amounts ELSE r.invest_amounts
           /\ rate_between_amounts' =
                  IF copy THEN rate_between_amounts ELSE r.rate_between_amounts
    /\ UNCHANGED <<pc, regular, scheduleArgs, scheduleLocals, scriptVars>>

\* One call of total_of_regular_investment for the constant series the caller
\* holds: n_periods copies of one amount and of one rate.
CallTotalOfRegular(reg_invest_value, rate) ==
    /\ pc = "series"
    /\ regular = <<>>
    /\ Len(invest_amounts) = Len(rate_between_amounts)
    /\ invest_amounts = Repeat(reg_invest_value, Len(invest_amounts))
    /\ rate_between_amounts = Repeat(rate, Len(invest_amounts))
    /\ regular' = <<[reg_invest_value |-> reg_invest_value,
                     rate |-> rate,
                     n_periods |-> Len(invest_amounts),
                     out |-> TotalOfRegularInvestment(reg_invest_value, rate,
                                                      Len(invest_amounts))]>>
    /\ UNCHANGED <<pc, invest_amounts, rate_between_amounts, calls,
                   scheduleArgs, scheduleLocals, scriptVars>>

----------------------------------------------------------------------------
(* compute_equity_and_interest *)

InitSchedule ==
    /\ pc = "principal"
    /\ years_to_maturity \in 0..MaxYears
    /\ n_payment_per_year \in (-1..MaxPay) \cup {MonthsPerYear}
    /\ years_to_maturity * n_payment_per_year <= MaxPeriods
    /\ \E r \in PeriodRates :
           loan_rate = RMul(r, R(IF n_payment_per_year = 0 THEN 1
                                 ELSE n_payment_per_year))
    /\ loan_amount \in LoanAmounts
    /\ initial_equity \in {R(0), R(1)}
    /\ \E g \in {0, 1} : estate_growth_rate = R(g * n_payment_per_year)
    /\ NoScheduleLocals
    /\ NoSeries /\ NoScript

\* the call of compute_mortg_principal and the initial values of the locals
SchedulePrincipal ==
    /\ pc = "principal"
    /\ principal' = ComputeMortgPrincipal(loan_rate, loan_amount,
                                          years_to_maturity, n_payment_per_year)
    /\ IF Raised(principal')
       THEN /\ pc' = "raised"
            /\ UNCHANGED <<equity, interest_paid, remaining_loan,
                           equity_over_time, interest_paid_over_time, period>>
       ELSE /\ pc' = "loop"
            /\ equity' = initial_equity
            /\ interest_paid' = Zero
            /\ remaining_loan' = loan_amount
            /\ equity_over_time' = <<initial_equity>>
            /\ interest_paid_over_time' = <<Zero>>
            /\ period' = 0
    /\ UNCHANGED <<seriesVars, scheduleArgs, scriptVars>>

\* one round of the loop
SchedulePeriod ==
    /\ pc = "loop"
    /\ period < years_to_maturity * n_payment_per_year
    /\ LET period_interest_factor == RDiv(loan_rate, R(n_payment_per_year))
           period_interest == RMul(remaining_loan, period_interest_factor)
       IN  /\ remaining_loan' =
                  RAdd(remaining_loan, RSub(period_interest, principal.val))
           /\ interest_paid' = RAdd(interest_paid, period_interest)
           /\ equity' = RAdd(equity, RSub(principal.val, period_interest))
           /\ equity_over_time' = Append(equity_over_time, equity')
           /\ interest_paid_over_time' =
                  Append(interest_paid_over_time, interest_paid')
    /\ period' = period + 1
    /\ UNCHANGED <<pc, principal, seriesVars, scheduleArgs, scriptVars>>

\* the end of the loop, the growth of the estate, and the return
ScheduleReturn ==
    /\ pc = "loop"
    /\ period >= years_to_maturity * n_payment_per_year
    /\ pc' = "returned"
    /\ equity_over_time' =
           IF RPos(estate_growth_rate)
           THEN LET period_estate_growth_factor ==
                        RAdd(One, RDiv(estate_growth_rate, R(n_payment_per_year)))
                IN  [k \in 1..Len(equity_over_time) |->
                        RMul(equity_over_time[k],
                             RPowNat(period_estate_growth_factor, k))]
           ELSE equity_over_time
    /\ UNCHANGED <<principal, equity, interest_paid, remaining_loan,
                   interest_paid_over_time, period,
                   seriesVars, scheduleArgs, scriptVars>>

----------------------------------------------------------------------------
(* The script: the sidebar, house_investment, compare_house_invest_vs_stock *)

\* Exact arithmetic stays within TLC's 32-bit integers when only a horizon
\* of one year compounds at a rate other than zero; an estate rate of -24
\* (a growth factor of -1) keeps its size over any horizon.
WithinRange(s) ==
    /\ s.mortg_rate # Zero => s.mortgage_n_years = 1
    /\ (s.inflation_rate # Zero \/ s.stock_market_rate # Zero
            \/ s.estate_rate \notin {Zero, R(-24)})
       => s.mortgage_n_years + s.n_years_after_pay_off = 1

Scenarios ==
    {s \in [house_cost : {R(8)},
            down_payment_perc : {<<1, 2>>, One},
            mortg_rate : {R(0), R(12)},
            mortgage_n_years : 1..MaxMortgageYears,
            n_years_after_pay_off : 0..MaxExtraYears,
            tax : {R(0), R(12)},
            insurance : {R(0)},
            repair : {R(12)},
            monthly_rental_income : {R(0), R(4)},
            percentage_rented : {One},
            estate_rate : {R(0), R(12), R(-24)},
            inflation_rate : {R(0), R(12)},
            income_tax : {R(0), <<1, 2>>},
            management_fees_rate : {<<1, 2>>},
            stock_market_rate : {R(0), R(12)}] : WithinRange(s)}

InitScript ==
    /\ pc = "house_investment"
    /\ scenario \in Scenarios
    /\ house = Raise("not called")
    /\ compare = <<>>
    /\ df = <<>>
    /\ NoSeries /\ NoSchedule

\* the call of house_investment and the first two columns of the frame
RunHouseInvestment ==
    /\ pc = "house_investment"
    /\ house' = HouseInvestment(scenario)
    /\ IF Raised(house')
       THEN pc' = "raised" /\ df' = df
       ELSE /\ pc' = "compare"
            /\ df' = [equity |-> house'.val.equity,
                      montlhy_income |-> house'.val.monthly_income]
    /\ UNCHANGED <<scenario, compare, seriesVars, scheduleArgs, scheduleLocals>>

\* the call of compare_house_invest_vs_stock and the last two columns
RunCompare ==
    /\ pc = "compare"
    /\ compare' = CompareHouseInvestVsStock(df.equity, df.montlhy_income,
                                            scenario.stock_market_rate,
                                            scenario.down_payment_perc,
                                            scenario.house_cost)
    /\ df' = [equity |-> df.equity,
              montlhy_income |-> df.montlhy_income,
              house_investment |-> compare'.house_invest,
              stock_investment |-> compare'.total_stock_market_invest]
    /\ pc' = "charts"
    /\ UNCHANGED <<scenario, house, seriesVars, scheduleArgs, scheduleLocals>>

----------------------------------------------------------------------------
Init == InitSeries \/ InitSchedule \/ InitScript

Next ==
    \/ \E fo \in BOOLEAN, b \in BOOLEAN, c \in BOOLEAN : CallValuesOfSeries(fo, b, c)
    \/ \E v \in AmountValues, r \in RateValues : CallTotalOfRegular(v, r)
    \/ SchedulePrincipal
    \/ SchedulePeriod
    \/ ScheduleReturn
    \/ RunHouseInvestment
    \/ RunCompare

Spec == Init /\ [][Next]_vars

----------------------------------------------------------------------------
(* The claims *)

NPeriods == years_to_maturity * n_payment_per_year
InSchedule == pc \in {"loop", "returned"}
Last(q) == q[Len(q)]
RNonNeg(x) == x[1] >= 0

\* C1: with the payment of compute_mortg_principal, the loop of
\* compute_equity_and_interest run over all n_periods >= 1 periods leaves
\* remaining_loan exactly 0; and when the estate does not grow, the last
\* equity is initial_equity + loan_amount.
C1_BalanceReachesZero ==
    (InSchedule /\ NPeriods >= 1 /\ period = NPeriods)
        => /\ remaining_loan = Zero
           /\ estate_growth_rate = Zero
                  => /\ Len(equity_over_time) = NPeriods + 1
                     /\ Last(equity_over_time) = RAdd(initial_equity, loan_amount)

C1_Witness ==
    /\ pc = "returned"
    /\ NPeriods = MaxPeriods
    /\ loan_rate \notin {Zero, R(-MaxPeriods)}
    /\ estate_growth_rate = Zero
    /\ remaining_loan = Zero
    /\ equity_over_time[2] # equity_over_time[3]

\* C2: for a constant amount c, a constant rate r and n >= 0 periods,
\* total_of_regular_investment(c, r, n) returns what
\* values_of_series_of_invest([c]*n, [r]*n) returns at the end of period with
\* final_only, in both branches of the closed form.
C2_ClosedFormMatchesAccumulator ==
    \A i \in 1..Len(regular), k \in 1..Len(calls) :
        LET g == regular[i]
            c == calls[k]
        IN  (/\ c.final_only /\ ~c.invest_at_begining_of_period
             /\ c.invest_amounts = Repeat(g.reg_invest_value, g.n_periods)
             /\ c.rate_between_amounts = Repeat(g.rate, g.n_periods))
                => /\ ~Raised(g.out) /\ ~Raised(c.out)
                   /\ g.out.val = c.out.val

C2_Witness ==
    \E i \in 1..Len(regular), k \in 1..Len(calls) :
        LET g == regular[i]
            c == calls[k]
        IN  /\ c.final_only /\ ~c.invest_at_begining_of_period
            /\ g.n_periods = MaxLen
            /\ g.rate = <<1, 2>>
            /\ c.invest_amounts = Repeat(g.reg_invest_value, g.n_periods)
            /\ c.rate_between_amounts = Repeat(g.rate, g.n_periods)
            /\ g.out.val = c.out.val

\* C3: two calls of values_of_series_of_invest in succession on the same lists of
\* the caller, with the same flags, have the same outcome.
C3_SecondCallSameOutcome ==
    \A k \in 1..(Len(calls) - 1) :
        (/\ ~calls[k].copy /\ ~calls[k + 1].copy
         /\ calls[k].final_only = calls[k + 1].final_only
         /\ calls[k].invest_at_begining_of_period
                = calls[k + 1].invest_at_begining_of_period)
            => calls[k + 1].out = calls[k].out

\* C4: a call of values_of_series_of_invest on lists of different lengths
\* raises, whatever the flags.
C4_MismatchedLengthsRaise ==
    \A k \in 1..Len(calls) :
        Len(calls[k].invest_amounts) # Len(calls[k].rate_between_amounts)
            => Raised(calls[k].out)

\* C5: compute_mortg_principal raises when years_to_maturity = 0 or
\* n_payment_per_year <= 0, whatever the rate and the amount.
C5_DegenerateHorizonRaises ==
    (pc \in {"raised", "loop", "returned"}
        /\ (years_to_maturity = 0 \/ n_payment_per_year <= 0))
        => Raised(principal)

ScriptReturned == pc \in {"compare", "charts"}
NMonthsRepay == scenario.mortgage_n_years * MonthsPerYear
NTotalMonths == NMonthsRepay + scenario.n_years_after_pay_off * MonthsPerYear

\* C6: house_investment returns an equity and a monthly income of
\* n_total_months entries each, and from month n_months_repay on (counted from 0)
\* the loan is 0 and the equity is house_cost * (1 + estate_rate/12)^(i+1).
C6_AlignedAndPaidOff ==
    ScriptReturned
        => /\ ~Raised(house)
           /\ Len(df.equity) = NTotalMonths
           /\ Len(df.montlhy_income) = NTotalMonths
           /\ Len(house.val.loan_remaining) = NTotalMonths
           /\ \A i \in NMonthsRepay..(NTotalMonths - 1) :
                  /\ house.val.loan_remaining[i + 1] = Zero
                  /\ df.equity[i + 1]
                         = RMul(scenario.house_cost,
                                RPowNat(RAdd(One, RDiv(scenario.estate_rate, R(12))),
                                        i + 1))

C6_Witness ==
    /\ pc = "compare"
    /\ scenario.n_years_after_pay_off = MaxExtraYears
    /\ scenario.mortg_rate # Zero
    /\ scenario.estate_rate = R(-24)
    /\ scenario.down_payment_perc # One
    /\ df.equity[NTotalMonths] = scenario.house_cost
    /\ df.equity[1] # RNeg(scenario.house_cost)

\* the sum over j in lo..hi of the amount x[j] compounded at the rate r over
\* the k - j periods that follow its own
RECURSIVE SumOfCompounded(_, _, _, _, _)
SumOfCompounded(x, r, k, lo, hi) ==
    IF lo > hi THEN Zero
    ELSE IF lo = hi THEN RMul(x[lo], RPowNat(RAdd(One, r), k - lo))
    ELSE LET mid == (lo + hi) \div 2
         IN  RAdd(SumOfCompounded(x, r, k, lo, mid),
                  SumOfCompounded(x, r, k, mid + 1, hi))

\* C7: compare_house_invest_vs_stock splits each income into a part pos >= 0 and
\* a part neg >= 0, at most one of them not 0, with pos - neg the income; its two
\* results are as long as the income, house_invest being the equity plus the
\* positive parts accumulated at stock_rate/12 at the end of period, and
\* stock_invest the down payment compounded monthly plus the negative parts
\* accumulated likewise.
C7_ComparatorSeries ==
    pc = "charts"
        => LET inc == df.montlhy_income
               pos == compare.positive_monthly_income
               neg == compare.negative_monthly_income
               N == Len(inc)
               r == RDiv(scenario.stock_market_rate, R(12))
           IN  /\ Len(pos) = N /\ Len(neg) = N
               /\ Len(df.house_investment) = N
               /\ Len(df.stock_investment) = N
               /\ \A k \in 1..N :
                      /\ RNonNeg(pos[k]) /\ RNonNeg(neg[k])
                      /\ RSub(pos[k], neg[k]) = inc[k]
                      /\ pos[k] = Zero \/ neg[k] = Zero
                      /\ df.house_investment[k]
                             = RAdd(df.equity[k], SumOfCompounded(pos, r, k, 1, k))
                      /\ df.stock_investment[k]
                             = RAdd(RMul(RMul(scenario.down_payment_perc,
                                              scenario.house_cost),
                                         RPowNat(RAdd(One, r), k)),
                                    SumOfCompounded(neg, r, k, 1, k))

C7_Witness ==
    /\ pc = "charts"
    /\ scenario.stock_market_rate # Zero
    /\ scenario.mortg_rate # Zero
    /\ scenario.estate_rate = R(12)
    /\ \E k \in 1..Len(df.montlhy_income) : RPos(compare.positive_monthly_income[k])
    /\ \E k \in 1..Len(df.montlhy_income) : RPos(compare.negative_monthly_income[k])

\* C8: on lists of the same length N, in either mode, the call with final_only
\* off returns N values and the call with final_only on returns the last of
\* them; for N = 0 they return the empty list and 0.
C8_FinalIsLastOfSeries ==
    \A i \in 1..Len(calls), j \in 1..Len(calls) :
        LET all == calls[i]
            fin == calls[j]
            N == Len(all.invest_amounts)
        IN  (/\ ~all.final_only /\ fin.final_only
             /\ all.invest_at_begining_of_period = fin.invest_at_begining_of_period
             /\ all.invest_amounts = fin.invest_amounts
             /\ all.rate_between_amounts = fin.rate_between_amounts
             /\ Len(all.rate_between_amounts) = N)
                => /\ ~Raised(all.out) /\ ~Raised(fin.out)
                   /\ Len(all.out.val) = N
                   /\ fin.out.val = IF N = 0 THEN Zero ELSE Last(all.out.val)

\* C9: with twelve payments a year, after each of the k = 1..n_months_repay
\* rounds of the loop of compute_equity_and_interest, remaining_loan is the k-th
\* balance house_investment derives from the side account:
\* loan_amount * (1 + rate/12)^k less the k-th accumulated value of the payments.
C9_SideAccountMatchesSchedule ==
    (InSchedule /\ n_payment_per_year = MonthsPerYear /\ period >= 1)
        => LoanRemaining(loan_amount, loan_rate, principal.val, NPeriods)[period]
               = remaining_loan

C9_Witness ==
    /\ pc = "loop"
    /\ n_payment_per_year = MonthsPerYear
    /\ period = 7
    /\ loan_rate = R(12)
    /\ RPos(remaining_loan)

\* C10: the months charged the mortgage payment number n_months_repay, and no
\* month whose loan_remaining is the padding after the payoff is charged.
C10_PaymentOnlyWhileRepaying ==
    ScriptReturned
        => /\ Cardinality({k \in 1..NTotalMonths : house.val.payment_charged[k]})
                  = NMonthsRepay
           /\ \A k \in (NMonthsRepay + 1)..NTotalMonths :
                  ~house.val.payment_charged[k]

====
